---- MODULE Spec2Model ----
(***************************************************************************)
(* A model of the query-matching / ranking engine and of the repository    *)
(* discovery traversal of flow-alfred (src/flow/src/lib.rs) and of the two *)
(* search commands that compose them (src/flow/src/main.rs).               *)
(*                                                                         *)
(* A Rust string is modelled as a sequence of one-character strings; the   *)
(* character positions of the code (0-based) are kept, so position i of    *)
(* the code is element i + 1 of the sequence.                              *)
(***************************************************************************)
EXTENDS Integers, Sequences, FiniteSets, TLC

VARIABLES
    mode,       \* which entry point of the library / binary is being exercised
    pc,         \* position of the running call
    query,      \* the query argument
    target,     \* the target argument of fuzzy_match / fuzzy_score
    other,      \* a second target, scored with the same query
    matched,    \* value returned by fuzzy_match(query, target)
    score,      \* value returned by fuzzy_score(query, target)
    otherScore, \* value returned by fuzzy_score(query, other)
    items,      \* the slice handed to fuzzy_sort, as it is before the call
    ranked,     \* the same slice after the call
    rootExists, \* whether the root directory of a search command exists
    repos,      \* what discovery returned to a search command
    output,     \* the items a search command prints
    sortCalled, \* whether the search command called fuzzy_sort
    fs,         \* the directory tree: the kind of every path that exists
    stack,      \* the work-stack of discover_repos
    seen,       \* the set of path keys of discover_repos
    listed,     \* how many times read_dir was called on each path
    owners      \* the entries of the root discover_repos_structured has yet to visit

fuzzyVars == <<query, target, other, matched, score, otherScore>>
rankVars == <<items, ranked, rootExists, repos, output, sortCalled>>
scanVars == <<fs, stack, seen, listed, owners>>
vars == <<mode, pc, fuzzyVars, rankVars, scanVars>>

(***************************************************************************)
(* Strings                                                                 *)
(***************************************************************************)

\* The characters of a string literal, one element per character.
Chars(s) == [i \in 1..Len(s) |-> SubSeq(s, i, i)]

UpperCase == Chars("ABCDEFGHIJKLMNOPQRSTUVWXYZ")
LowerCase == Chars("abcdefghijklmnopqrstuvwxyz")

\* The lower-case letter of each upper-case letter.
LowerOf ==
    [c \in {UpperCase[k] : k \in 1..Len(UpperCase)} |->
        LowerCase[CHOOSE k \in 1..Len(UpperCase) : UpperCase[k] = c]]

\* char::to_lowercase on the characters the model uses (ASCII): an upper-case
\* letter becomes its lower-case letter, every other character is unchanged.
char_to_lowercase(c) == IF c \in DOMAIN LowerOf THEN LowerOf[c] ELSE c

\* s begins with p (str::starts_with on the character sequences).
StartsWith(s, p) == Len(p) <= Len(s) /\ SubSeq(s, 1, Len(p)) = p

\* str::to_lowercase: the lower-case mapping applied to every character.
to_lowercase(s) == [i \in 1..Len(s) |-> char_to_lowercase(s[i])]

(***************************************************************************)
(* Fuzzy matching: fuzzy_match                                             *)
(***************************************************************************)

\* The loop of fuzzy_match over the lower-cased strings. cur is the number of
\* query characters already consumed plus one (the peekable cursor), i the
\* 0-based position of the next target character.
RECURSIVE fuzzy_match_loop(_, _, _, _)
fuzzy_match_loop(q, t, cur, i) ==
    IF i >= Len(t)
    THEN cur > Len(q)                        \* query_chars.peek().is_none()
    ELSE LET c == t[i + 1]
             advanced == IF cur <= Len(q) /\ q[cur] = c THEN cur + 1 ELSE cur
         IN  IF advanced > Len(q)
             THEN TRUE                       \* early return inside the loop
             ELSE fuzzy_match_loop(q, t, advanced, i + 1)

\* Variant: an empty query is rejected instead of accepted.
fuzzy_match_rejects_empty(q, t) ==
    IF q = <<>>
    THEN FALSE
    ELSE fuzzy_match_loop(to_lowercase(q), to_lowercase(t), 1, 0)

\* Variant: the target is not lower-cased.
fuzzy_match_case_sensitive(q, t) ==
    IF q = <<>>
    THEN TRUE
    ELSE fuzzy_match_loop(to_lowercase(q), t, 1, 0)

fuzzy_match(q, t) ==
    IF q = <<>>
    THEN TRUE
    ELSE fuzzy_match_loop(to_lowercase(q), to_lowercase(t), 1, 0)

(***************************************************************************)
(* Fuzzy scoring: fuzzy_score                                              *)
(***************************************************************************)

BaseCredit == 5           \* score += 5
StartBonus == 20          \* score += 20 when i == 0
SeparatorBonus == 15      \* score += 15 after a separator
RunBonus == 10            \* score += consecutive * 10
NoMatchScore == -1        \* return -1: not all query characters were matched
NoPos == -1               \* last_match_pos = None

\* Variant: the underscore is not a separator.
IsSeparator_no_underscore(c) == c = "/" \/ c = "-" \/ c = " "

\* prev == Some('/') || prev == Some('-') || prev == Some('_') || prev == Some(' ')
IsSeparator(c) == c = "/" \/ c = "-" \/ c = "_" \/ c = " "

\* The local variables of fuzzy_score before the loop.
ScoreInit == [score |-> 0, cur |-> 1, last |-> NoPos, consecutive |-> 0]

\* Variant: no bonus for consecutive matches.
fuzzy_score_step_no_run(q, t, st, i) ==
    IF st.cur <= Len(q) /\ q[st.cur] = t[i + 1]
    THEN LET contiguous == st.last # NoPos /\ i = st.last + 1
             consecutive == IF st.last = NoPos THEN st.consecutive
                            ELSE IF contiguous THEN st.consecutive + 1
                            ELSE 0
             run == 0
             start == IF i = 0 THEN StartBonus ELSE 0
             \* target.chars().nth(i - 1) is element i of the sequence
             sep == IF i > 0 /\ IsSeparator(t[i]) THEN SeparatorBonus ELSE 0
         IN  [score |-> st.score + run + start + sep + BaseCredit,
              cur |-> st.cur + 1,
              last |-> i,
              consecutive |-> consecutive]
    ELSE st

\* Variant: no bonus for a match at the start of the target.
fuzzy_score_step_no_start(q, t, st, i) ==
    IF st.cur <= Len(q) /\ q[st.cur] = t[i + 1]
    THEN LET contiguous == st.last # NoPos /\ i = st.last + 1
             consecutive == IF st.last = NoPos THEN st.consecutive
                            ELSE IF contiguous THEN st.consecutive + 1
                            ELSE 0
             run == IF contiguous THEN consecutive * RunBonus ELSE 0
             start == 0
             \* target.chars().nth(i - 1) is element i of the sequence
             sep == IF i > 0 /\ IsSeparator(t[i]) THEN SeparatorBonus ELSE 0
         IN  [score |-> st.score + run + start + sep + BaseCredit,
              cur |-> st.cur + 1,
              last |-> i,
              consecutive |-> consecutive]
    ELSE st

\* Variant: the run counter is not reset after a gap.
fuzzy_score_step_no_reset(q, t, st, i) ==
    IF st.cur <= Len(q) /\ q[st.cur] = t[i + 1]
    THEN LET contiguous == st.last # NoPos /\ i = st.last + 1
             consecutive == IF contiguous THEN st.consecutive + 1 ELSE st.consecutive
             run == IF contiguous THEN consecutive * RunBonus ELSE 0
             start == IF i = 0 THEN StartBonus ELSE 0
             sep == IF i > 0 /\ IsSeparator(t[i]) THEN SeparatorBonus ELSE 0
         IN  [score |-> st.score + run + start + sep + BaseCredit,
              cur |-> st.cur + 1,
              last |-> i,
              consecutive |-> consecutive]
    ELSE st

\* One iteration of the for loop of fuzzy_score: q and t are the lower-cased
\* query and target, i the 0-based position of the target character.
fuzzy_score_step(q, t, st, i) ==
    IF st.cur <= Len(q) /\ q[st.cur] = t[i + 1]
    THEN LET contiguous == st.last # NoPos /\ i = st.last + 1
             consecutive == IF st.last = NoPos THEN st.consecutive
                            ELSE IF contiguous THEN st.consecutive + 1
                            ELSE 0
             run == IF contiguous THEN consecutive * RunBonus ELSE 0
             start == IF i = 0 THEN StartBonus ELSE 0
             \* target.chars().nth(i - 1) is element i of the sequence
             sep == IF i > 0 /\ IsSeparator(t[i]) THEN SeparatorBonus ELSE 0
         IN  [score |-> st.score + run + start + sep + BaseCredit,
              cur |-> st.cur + 1,
              last |-> i,
              consecutive |-> consecutive]
    ELSE st

\* The whole for loop, from position i on.
RECURSIVE fuzzy_score_loop(_, _, _, _)
fuzzy_score_loop(q, t, st, i) ==
    IF i >= Len(t)
    THEN st
    ELSE fuzzy_score_loop(q, t, fuzzy_score_step(q, t, st, i), i + 1)

\* Variant: the accrued score is returned even when the query is not exhausted.
fuzzy_score_partial(q, t) ==
    IF q = <<>>
    THEN 0
    ELSE fuzzy_score_loop(to_lowercase(q), to_lowercase(t), ScoreInit, 0).score

\* Variant: the empty query is scored as a query that does not match.
fuzzy_score_empty_unmatched(q, t) ==
    LET lq == to_lowercase(q)
        final == fuzzy_score_loop(lq, to_lowercase(t), ScoreInit, 0)
    IN  IF final.cur <= Len(lq) \/ lq = <<>>
        THEN NoMatchScore
        ELSE final.score

\* Variant: a query that does not match scores 0.
fuzzy_score_unmatched_zero(q, t) ==
    IF q = <<>>
    THEN 0
    ELSE LET lq == to_lowercase(q)
             final == fuzzy_score_loop(lq, to_lowercase(t), ScoreInit, 0)
         IN  IF final.cur <= Len(lq)
             THEN 0
             ELSE final.score

fuzzy_score(q, t) ==
    IF q = <<>>
    THEN 0
    ELSE LET lq == to_lowercase(q)
             final == fuzzy_score_loop(lq, to_lowercase(t), ScoreInit, 0)
         IN  IF final.cur <= Len(lq)         \* query_chars.peek().is_some()
             THEN NoMatchScore
             ELSE final.score

(***************************************************************************)
(* Ordering: slice::sort_by, String comparison, fuzzy_sort                 *)
(***************************************************************************)

\* The characters the model uses, in ascending byte order.
ByteOrder == Chars(" -./0123456789ABCDEFGHIJKLMNOPQRSTUVWXYZ_abcdefghijklmnopqrstuvwxyz")

ByteRank ==
    [c \in {ByteOrder[k] : k \in 1..Len(ByteOrder)} |->
        CHOOSE k \in 1..Len(ByteOrder) : ByteOrder[k] = c]

\* a.cmp(&b) == Ordering::Less for strings: byte-lexicographic order.
StringLess(a, b) ==
    \E i \in 1..Len(b) :
        /\ i <= Len(a) + 1
        /\ SubSeq(a, 1, i - 1) = SubSeq(b, 1, i - 1)
        /\ i = Len(a) + 1 \/ ByteRank[a[i]] < ByteRank[b[i]]

\* The elements of a sequence.
Elements(s) == {s[i] : i \in DOMAIN s}

\* Variant: elements that compare equal come out in reverse input order.
sort_by_unstable(s, less) ==
    LET rank(j) == 1 + Cardinality({ k \in DOMAIN s :
                        \/ <<s[k], s[j]>> \in less
                        \/ <<s[j], s[k]>> \notin less /\ k > j })
    IN  [i \in DOMAIN s |-> s[CHOOSE j \in DOMAIN s : rank(j) = i]]

\* slice::sort_by, a stable sort. less holds the pairs <<a, b>> for which the
\* comparator returns Ordering::Less; an element is placed after the elements
\* that order before it and after the earlier elements that compare equal.
sort_by(s, less) ==
    LET rank(j) == 1 + Cardinality({ k \in DOMAIN s :
                        \/ <<s[k], s[j]>> \in less
                        \/ <<s[j], s[k]>> \notin less /\ k < j })
    IN  [i \in DOMAIN s |-> s[CHOOSE j \in DOMAIN s : rank(j) = i]]

\* Variant: the comparator is b.display.cmp(&a.display).
DisplayLess_descending(s) ==
    { x \in Elements(s) \X Elements(s) : StringLess(x[2].display, x[1].display) }

\* The comparator |a, b| a.display.cmp(&b.display) on the entries of s.
DisplayLess(s) ==
    { x \in Elements(s) \X Elements(s) : StringLess(x[1].display, x[2].display) }

\* Variant: the comparator is score_a.cmp(&score_b).
fuzzy_sort_ascending(its, q, get_str) ==
    sort_by(its, { x \in Elements(its) \X Elements(its) :
                      fuzzy_score(q, x[1][get_str]) < fuzzy_score(q, x[2][get_str]) })

\* fuzzy_sort: the comparator is score_b.cmp(&score_a), which is Less when
\* score_b < score_a. get_str is the name of the field the closure returns.
fuzzy_sort(its, q, get_str) ==
    sort_by(its, { x \in Elements(its) \X Elements(its) :
                      fuzzy_score(q, x[2][get_str]) < fuzzy_score(q, x[1][get_str]) })

(***************************************************************************)
(* The search commands: run_code_search, run_repos_search                  *)
(***************************************************************************)

\* Option<T>
None == [some |-> FALSE]
Some(v) == [some |-> TRUE, value |-> v]

\* Path::join(name), which is PathBuf::push on a copy: an absolute name
\* replaces the base; otherwise the name is appended, after a '/' when the
\* base is not empty and does not end with one.
join(dir, name) ==
    IF StartsWith(name, Chars("/"))
    THEN name
    ELSE IF dir = <<>> \/ dir[Len(dir)] = "/"
    THEN dir \o name
    ELSE dir \o Chars("/") \o name

\* dirs_home: the environment variable HOME as a path, None when it is not
\* set (or not Unicode). home_var is what std::env::var("HOME") finds.
dirs_home(home_var) ==
    IF home_var.some THEN Some(home_var.value) ELSE None

\* expand_path: a leading "~/" is replaced by the home directory when there
\* is one; every other path, and every path without a home, is kept.
expand_path(home_var, path) ==
    IF StartsWith(path, Chars("~/")) /\ dirs_home(home_var).some
    THEN join(dirs_home(home_var).value, SubSeq(path, 3, Len(path)))
    ELSE path

\* The home directory of the scans, and the values of HOME of the searches:
\* not set, a directory, a directory written with a trailing '/', empty.
Home == Chars("/u")
HomeVars == {None, Some(Home), Some(Home \o Chars("/")), Some(<<>>)}

\* The position of the last '/' of s, 0 when there is none.
LastSlash(s) ==
    IF \E i \in 1..Len(s) : s[i] = "/"
    THEN CHOOSE i \in 1..Len(s) : s[i] = "/" /\ \A j \in (i + 1)..Len(s) : s[j] # "/"
    ELSE 0

\* s.rsplit('/').next(): what follows the last '/', all of s without one.
LastSegment(s) == SubSeq(s, LastSlash(s) + 1, Len(s))

\* The title of an entry: its display, without the last segment when the last
\* two segments are the same ("org/gitedit/gitedit" becomes "org/gitedit").
condense(display) ==
    LET k == LastSlash(display)
    IN  IF k = 0
        THEN display                                   \* parts.len() == 1
        ELSE LET last == SubSeq(display, k + 1, Len(display))   \* parts[0]
                 rest == SubSeq(display, 1, k - 1)              \* parts[1]
             IN  IF last = LastSegment(rest) THEN rest ELSE display

\* The item built for an entry by the closure passed to map.
entry_item(entry) ==
    [title |-> condense(entry.display), uid |-> entry.path, match |-> entry.display]

\* The elements of s that satisfy Keep, in order (Iterator::filter).
RECURSIVE FilterSeq(_, _)
FilterSeq(s, keep) ==
    IF s = <<>> THEN <<>>
    ELSE LET rest == FilterSeq(SubSeq(s, 1, Len(s) - 1), keep)
         IN  IF s[Len(s)] \in keep THEN Append(rest, s[Len(s)]) ELSE rest

\* Variant: every entry is kept.
search_items_unfiltered(rs, q) == [i \in DOMAIN rs |-> entry_item(rs[i])]

\* The items of a search before sorting: the entries whose display matches.
search_items(rs, q) ==
    LET kept == FilterSeq(rs, { e \in {rs[i] : i \in DOMAIN rs} :
                                    q = <<>> \/ fuzzy_match(q, e.display) })
    IN  [i \in DOMAIN kept |-> entry_item(kept[i])]

\* The body shared by run_code_search and run_repos_search, from the check of
\* the root directory to the printed output; rs is what discovery returned.
\* The result is the printed items and whether fuzzy_sort was called.
run_search(q, root, exists, rs) ==
    IF ~exists
    THEN [items |-> << [title |-> Chars("No directory found at ") \o root,
                        valid |-> FALSE] >>,
          sorted |-> FALSE]
    ELSE IF rs = <<>>
    THEN [items |-> << [title |-> Chars("No git repositories found"),
                        valid |-> FALSE] >>,
          sorted |-> FALSE]
    ELSE IF q # <<>>
    THEN [items |-> fuzzy_sort(search_items(rs, q), q, "title"), sorted |-> TRUE]
    ELSE [items |-> search_items(rs, q), sorted |-> FALSE]

\* The entries discovery returns for a set of displays under a root: the
\* path is the root joined with the display, the list is sorted by display.
EntriesOf(home_var, root, displays) ==
    LET n == Cardinality(displays)
        some == CHOOSE f \in [1..n -> displays] : {f[i] : i \in 1..n} = displays
        unsorted == [i \in 1..n |-> [display |-> some[i],
                                     path |-> join(expand_path(home_var, root), some[i])]]
    IN  sort_by(unsorted, DisplayLess(unsorted))

MaxItems == 3
MaxRepos == 3

CodeRoot == Chars("~/code")
ReposRoot == Chars("~/repos")

\* Keys with equal and with different scores, a key the queries do not match.
SortKeys == {Chars("ab"), Chars("AB"), Chars("a-b"), Chars("axb"), Chars("b"), Chars("")}

SearchQueries == {Chars(""), Chars("b"), Chars("ab"), Chars("bb")}

\* Displays of repositories at depth one, two and three.
CodeDisplays ==
    {Chars("ab"), Chars("a-b"), Chars("b/ab"), Chars("b/b"), Chars("B/a"), Chars("a/b/b")}

\* No display of the set lies inside another one (a repository is a leaf).
PrefixFree(displays) ==
    \A d \in displays, e \in displays : ~StartsWith(e, d \o Chars("/"))

\* owner/repo displays.
ReposDisplays == { d \in CodeDisplays : LastSlash(d) > 0 /\ LastSlash(SubSeq(d, 1, LastSlash(d) - 1)) = 0 }

FuzzyIdle ==
    /\ target = <<>> /\ other = <<>>
    /\ matched = FALSE /\ score = 0 /\ otherScore = 0

RankIdle ==
    /\ items = <<>> /\ ranked = <<>>
    /\ rootExists = FALSE /\ repos = <<>> /\ output = <<>> /\ sortCalled = FALSE

ScanIdle == fs = <<>> /\ stack = <<>> /\ seen = {} /\ listed = <<>> /\ owners = {}

\* A slice of up to MaxItems items to sort, or the inputs of a search command.
InitRank ==
    /\ pc = "ready"
    /\ query \in SearchQueries
    /\ FuzzyIdle
    /\ ScanIdle
    /\ ranked = <<>> /\ output = <<>> /\ sortCalled = FALSE
    /\ \/ /\ mode = "sort"
          /\ \E n \in 0..MaxItems : \E keys \in [1..n -> SortKeys] :
                items = [i \in 1..n |-> [key |-> keys[i], id |-> i]]
          /\ rootExists = FALSE /\ repos = <<>>
       \/ /\ mode = "code"
          /\ items = <<>>
          /\ \/ rootExists = FALSE /\ repos = <<>>
             \/ /\ rootExists = TRUE
                /\ \E ds \in SUBSET CodeDisplays, home_var \in HomeVars :
                      /\ Cardinality(ds) <= MaxRepos
                      /\ PrefixFree(ds)
                      /\ repos = EntriesOf(home_var, CodeRoot, ds)
       \/ /\ mode = "repos"
          /\ items = <<>>
          /\ \/ rootExists = FALSE /\ repos = <<>>
             \/ /\ rootExists = TRUE
                /\ \E ds \in SUBSET ReposDisplays, home_var \in HomeVars :
                      /\ Cardinality(ds) <= MaxRepos
                      /\ repos = EntriesOf(home_var, ReposRoot, ds)

\* A call of fuzzy_sort(&mut items, query, |item| &item.key).
CallFuzzySort ==
    /\ mode = "sort" /\ pc = "ready"
    /\ ranked' = fuzzy_sort(items, query, "key")
    /\ pc' = "done"
    /\ UNCHANGED <<mode, fuzzyVars, items, rootExists, repos, output, sortCalled, scanVars>>

\* run_code_search(query, root), given what discover_repos returns.
RunCodeSearch ==
    /\ mode = "code" /\ pc = "ready"
    /\ LET r == run_search(query, CodeRoot, rootExists, repos)
       IN  output' = r.items /\ sortCalled' = r.sorted
    /\ pc' = "done"
    /\ UNCHANGED <<mode, fuzzyVars, items, ranked, rootExists, repos, scanVars>>

\* run_repos_search(query, root), given what discover_repos_structured returns.
RunReposSearch ==
    /\ mode = "repos" /\ pc = "ready"
    /\ LET r == run_search(query, ReposRoot, rootExists, repos)
       IN  output' = r.items /\ sortCalled' = r.sorted
    /\ pc' = "done"
    /\ UNCHANGED <<mode, fuzzyVars, items, ranked, rootExists, repos, scanVars>>

NextRank == CallFuzzySort \/ RunCodeSearch \/ RunReposSearch

SpecRank == InitRank /\ [][NextRank]_vars

(***************************************************************************)
(* Calls of fuzzy_match and fuzzy_score on bounded inputs                  *)
(***************************************************************************)

MaxQueryLen == 2
MaxTargetLen == 4

\* Query characters: a lower-case letter, an upper-case letter and a
\* separator. Target characters: both cases of one letter, the lower case of
\* the other (a character the query can only match after case folding) and
\* the separator.
QueryAlphabet == {"a", "B", "-"}
TargetAlphabet == {"a", "A", "b", "-"}

StringsUpTo(alphabet, n) == UNION {[1..k -> alphabet] : k \in 0..n}

\* The inputs of the repository's tests and of the specification's examples,
\* and one target for each separator character.
ExampleInputs ==
    { <<Chars("fc"), Chars("flow-code"), Chars("")>>,
      <<Chars("fl"), Chars("flow"), Chars("flow")>>,
      <<Chars(""), Chars("anything"), Chars("")>>,
      <<Chars("xyz"), Chars("abc"), Chars("")>>,
      <<Chars("fl"), Chars("alfred"), Chars("flow")>>,
      <<Chars("ab"), Chars("a-b"), Chars("ab-x")>>,
      <<Chars("ab"), Chars("axb"), Chars("ab-x")>>,
      <<Chars("ab"), Chars("-a-b"), Chars("ab")>>,
      <<Chars("ab"), Chars("a/b"), Chars("ab")>>,
      <<Chars("ab"), Chars("a_b"), Chars("ab")>>,
      <<Chars("ab"), Chars("a b"), Chars("ab")>>,
      <<Chars("abc"), Chars("abc"), Chars("abc")>>,
      <<Chars("abc"), Chars("ab-c"), Chars("abc")>>,
      <<Chars("abc"), Chars("xabc"), Chars("abc")>>,
      <<Chars("abab"), Chars("abxab"), Chars("abab")>> }

\* Targets that begin with the query q case-insensitively: q as typed or
\* lower-cased, followed by at most one more character.
PrefixedTargets(q) ==
    { p \o s : p \in {q, to_lowercase(q)},
               s \in {<<>>} \cup {<<c>> : c \in TargetAlphabet} }

\* Longer inputs for the comparison of a prefix match with a later match:
\* queries of three characters, one with a separator, against every
\* target of letters and separators up to MaxLongTargetLen ("-a-b-c").
MaxLongTargetLen == 6
LongQueries == {Chars("abc"), Chars("aab"), Chars("a-b")}
LongAlphabet == {"a", "b", "c", "-"}

\* The inputs are the examples, or any query and target up to the bounds with
\* a second target that begins with the query, or a longer query with any
\* longer target and the query itself as the second target.
InitFuzzy ==
    /\ mode = "fuzzy"
    /\ pc = "ready"
    /\ \/ \E x \in ExampleInputs : query = x[1] /\ target = x[2] /\ other = x[3]
       \/ /\ query \in StringsUpTo(QueryAlphabet, MaxQueryLen)
          /\ target \in StringsUpTo(TargetAlphabet, MaxTargetLen)
          /\ other \in PrefixedTargets(query)
       \/ /\ query \in LongQueries
          /\ target \in StringsUpTo(LongAlphabet, MaxLongTargetLen)
          /\ other = query
    /\ matched = FALSE
    /\ score = 0
    /\ otherScore = 0
    /\ RankIdle
    /\ ScanIdle

\* A call of fuzzy_match(query, target).
CallFuzzyMatch ==
    /\ mode = "fuzzy"
    /\ pc = "ready"
    /\ matched' = fuzzy_match(query, target)
    /\ pc' = "matched"
    /\ UNCHANGED <<mode, query, target, other, score, otherScore, rankVars, scanVars>>

\* Calls of fuzzy_score(query, target) and fuzzy_score(query, other).
CallFuzzyScore ==
    /\ mode = "fuzzy"
    /\ pc = "matched"
    /\ score' = fuzzy_score(query, target)
    /\ otherScore' = fuzzy_score(query, other)
    /\ pc' = "scored"
    /\ UNCHANGED <<mode, query, target, other, matched, rankVars, scanVars>>

NextFuzzy == CallFuzzyMatch \/ CallFuzzyScore

SpecFuzzy == InitFuzzy /\ [][NextFuzzy]_vars

(***************************************************************************)
(* The directory tree                                                      *)
(***************************************************************************)
(* fs maps every existing path (a string) to its kind:                     *)
(*   "file"      a regular file                                            *)
(*   "symlink"   a symbolic link to an empty readable directory elsewhere  *)
(*   "dir"       a readable directory without a .git entry                 *)
(*   "locked"    a directory without a .git entry whose listing fails      *)
(*   "repo"      a readable directory that holds a .git directory          *)
(*   "worktree"  a readable directory that holds a .git file               *)
(* The .git entry of a "repo" or "worktree" is not a path of fs of its     *)
(* own; read_dir yields it with the other entries of the directory.        *)
(***************************************************************************)

DirKinds == {"dir", "locked", "repo", "worktree"}
Kinds == DirKinds \cup {"file", "symlink"}

DotGit == Chars(".git")

\* Path::parent and Path::file_name
parent(path) == SubSeq(path, 1, LastSlash(path) - 1)
file_name(path) == LastSegment(path)

\* Path::strip_prefix(base): the rest of the path below base, or an error.
strip_prefix(path, base) ==
    IF path = base
    THEN [ok |-> TRUE, rest |-> <<>>]
    ELSE IF StartsWith(path, base \o Chars("/"))
    THEN [ok |-> TRUE, rest |-> SubSeq(path, Len(base) + 2, Len(path))]
    ELSE [ok |-> FALSE, rest |-> <<>>]

\* Path::is_dir and Path::is_file of path.join(".git")
git_is_dir(tree, path) == path \in DOMAIN tree /\ tree[path] = "repo"
git_is_file(tree, path) == path \in DOMAIN tree /\ tree[path] = "worktree"

\* fs::read_dir(dir) succeeds; a link is followed to the directory it names.
can_read_dir(tree, dir) ==
    dir \in DOMAIN tree /\ tree[dir] \in {"dir", "repo", "worktree", "symlink"}

\* The entries read_dir(dir) yields, in no particular order: for each, its
\* path, its file name and whether entry.file_type() is a directory.
read_dir(tree, dir) ==
    { [path |-> q, name |-> file_name(q), is_dir |-> tree[q] \in DirKinds]
        : q \in { x \in DOMAIN tree : x # dir /\ parent(x) = dir } }
    \cup
    (IF tree[dir] \in {"repo", "worktree"}
     THEN { [path |-> join(dir, DotGit), name |-> DotGit, is_dir |-> tree[dir] = "repo"] }
     ELSE {})

\* The orders in which the entries of a listing can arrive.
Orders(entries) ==
    { f \in [1..Cardinality(entries) -> entries] :
        \A i \in DOMAIN f, j \in DOMAIN f : f[i] = f[j] => i = j }

(***************************************************************************)
(* Discovery: should_skip_dir, discover_repos                              *)
(***************************************************************************)

SkipNames ==
    { Chars("node_modules"), Chars("target"), Chars("dist"), Chars("build"),
      Chars("__pycache__"), Chars(".pytest_cache"), Chars(".mypy_cache"),
      Chars("venv"), Chars(".venv"), Chars("vendor"), Chars("Pods"),
      Chars(".cargo"), Chars(".rustup"), Chars(".next"), Chars(".turbo"),
      Chars(".cache") }

\* Variant: only hidden directories are skipped.
should_skip_dir_hidden_only(name) == StartsWith(name, Chars("."))

should_skip_dir(name) ==
    IF StartsWith(name, Chars("."))
    THEN TRUE
    ELSE name \in SkipNames

\* Variant: the entry is recorded with the path of the directory being listed.
scan_entry_parent_path(st, tree, root, dir, e) ==
    IF ~e.is_dir
    THEN st
    ELSE IF should_skip_dir(e.name)
    THEN st
    ELSE IF git_is_dir(tree, e.path) \/ git_is_file(tree, e.path)
    THEN LET sp == strip_prefix(e.path, root)
             display == IF sp.ok THEN sp.rest ELSE e.path
             key == e.path
         IN  IF key \notin st.seen
             THEN [st EXCEPT !.seen = @ \cup {key},
                             !.repos = Append(@, [display |-> display, path |-> dir])]
             ELSE st
    ELSE [st EXCEPT !.stack = Append(@, e.path)]

\* Variant: a repository is recorded and pushed on the stack as well.
scan_entry_descends_into_repo(st, tree, root, dir, e) ==
    IF ~e.is_dir
    THEN st
    ELSE IF should_skip_dir(e.name)
    THEN st
    ELSE IF git_is_dir(tree, e.path) \/ git_is_file(tree, e.path)
    THEN LET sp == strip_prefix(e.path, root)
             display == IF sp.ok THEN sp.rest ELSE e.path
             key == e.path
         IN  IF key \notin st.seen
             THEN [st EXCEPT !.seen = @ \cup {key},
                             !.repos = Append(@, [display |-> display, path |-> e.path]),
                             !.stack = Append(@, e.path)]
             ELSE [st EXCEPT !.stack = Append(@, e.path)]
    ELSE [st EXCEPT !.stack = Append(@, e.path)]

\* Variant: the entry is tested with path.is_dir(), which follows links.
scan_entry_follows_links(st, tree, root, dir, e) ==
    IF ~(e.is_dir \/ (e.path \in DOMAIN tree /\ tree[e.path] = "symlink"))
    THEN st
    ELSE IF should_skip_dir(e.name)
    THEN st
    ELSE IF git_is_dir(tree, e.path) \/ git_is_file(tree, e.path)
    THEN LET sp == strip_prefix(e.path, root)
             display == IF sp.ok THEN sp.rest ELSE e.path
             key == e.path
         IN  IF key \notin st.seen
             THEN [st EXCEPT !.seen = @ \cup {key},
                             !.repos = Append(@, [display |-> display, path |-> e.path])]
             ELSE st
    ELSE [st EXCEPT !.stack = Append(@, e.path)]

\* The body of the for loop of discover_repos for one entry e of the listing
\* of dir; st holds the stack, the seen set and the repos found so far.
scan_entry(st, tree, root, dir, e) ==
    IF ~e.is_dir
    THEN st
    ELSE IF should_skip_dir(e.name)
    THEN st
    ELSE IF git_is_dir(tree, e.path) \/ git_is_file(tree, e.path)
    THEN LET sp == strip_prefix(e.path, root)
             display == IF sp.ok THEN sp.rest ELSE e.path
             key == e.path
         IN  IF key \notin st.seen                      \* seen.insert(key)
             THEN [st EXCEPT !.seen = @ \cup {key},
                             !.repos = Append(@, [display |-> display, path |-> e.path])]
             ELSE st
    ELSE [st EXCEPT !.stack = Append(@, e.path)]

\* The for loop over the entries of dir, in the order ord.
RECURSIVE scan_entries(_, _, _, _, _)
scan_entries(st, tree, root, dir, ord) ==
    IF ord = <<>>
    THEN st
    ELSE scan_entries(scan_entry(st, tree, root, dir, Head(ord)), tree, root, dir, Tail(ord))

MaxEntries == 3

ScanRoot == expand_path(Some(Home), CodeRoot)

\* Directly under the root: a plain name, a name with a separator, a hidden
\* name and a noise name. The directory "a" can hold every inner name, the
\* others one plain name; the third level lies below "a/a".
Names == {Chars("a"), Chars("a-b"), Chars(".h"), Chars("node_modules")}
InnerNames == {Chars("a"), Chars(".h"), Chars("node_modules")}
LeafNames == {Chars("a")}

Level1 == { join(ScanRoot, n) : n \in Names }
Level2 ==
    { join(join(ScanRoot, Chars("a")), n) : n \in InnerNames }
    \cup { join(d, n) : d \in Level1, n \in LeafNames }
Level3 == { join(join(join(ScanRoot, Chars("a")), Chars("a")), n) : n \in LeafNames }
CandidatePaths == Level1 \cup Level2 \cup Level3

\* The scan root exists and is a directory; nothing else exists yet.
InitDiscover ==
    /\ mode = "discover"
    /\ pc = "setup"
    /\ query = <<>>
    /\ FuzzyIdle
    /\ RankIdle
    /\ \E k \in {"dir", "locked", "repo"} : fs = [x \in {ScanRoot} |-> k]
    /\ stack = <<>>
    /\ seen = {}
    /\ listed = <<>>
    /\ owners = {}

\* Before the scan: a file, link or directory is created in a directory.
Create ==
    /\ mode = "discover" /\ pc = "setup"
    /\ Cardinality(DOMAIN fs) <= MaxEntries
    /\ \E q \in CandidatePaths \ DOMAIN fs : \E k \in Kinds :
          /\ parent(q) \in DOMAIN fs
          /\ fs[parent(q)] \in DirKinds
          /\ fs' = [x \in DOMAIN fs \cup {q} |-> IF x = q THEN k ELSE fs[x]]
    /\ UNCHANGED <<mode, pc, fuzzyVars, rankVars, stack, seen, listed, owners>>

\* Variant: the root is classified like any directory, and a root that
\* holds .git is recorded and not listed.
StartDiscover_classifies_root ==
    /\ mode = "discover" /\ pc = "setup"
    /\ pc' = "scan"
    /\ IF git_is_dir(fs, ScanRoot) \/ git_is_file(fs, ScanRoot)
       THEN /\ stack' = <<>>
            /\ seen' = {ScanRoot}
            /\ repos' = << [display |-> <<>>, path |-> ScanRoot] >>
       ELSE /\ stack' = <<ScanRoot>>
            /\ seen' = {}
            /\ repos' = <<>>
    /\ listed' = [x \in DOMAIN fs |-> 0]
    /\ UNCHANGED <<mode, fuzzyVars, items, ranked, rootExists, output, sortCalled, fs, owners>>

\* discover_repos(root) up to the while loop.
StartDiscover ==
    /\ mode = "discover" /\ pc = "setup"
    /\ pc' = "scan"
    /\ stack' = <<ScanRoot>>
    /\ seen' = {}
    /\ repos' = <<>>
    /\ listed' = [x \in DOMAIN fs |-> 0]
    /\ UNCHANGED <<mode, fuzzyVars, items, ranked, rootExists, output, sortCalled, fs, owners>>

\* Variant: a listing that fails ends the scan with nothing found.
ScanDir_aborts_on_error ==
    /\ mode = "discover" /\ pc = "scan"
    /\ stack # <<>>
    /\ LET dir == stack[Len(stack)]
           popped == [stack |-> SubSeq(stack, 1, Len(stack) - 1),
                      seen |-> seen, repos |-> repos]
       IN  /\ listed' = [listed EXCEPT ![dir] = @ + 1]
           /\ IF ~can_read_dir(fs, dir)
              THEN /\ stack' = <<>>
                   /\ repos' = <<>>
                   /\ UNCHANGED seen
              ELSE \E ord \in Orders(read_dir(fs, dir)) :
                      LET st == scan_entries(popped, fs, ScanRoot, dir, ord)
                      IN  /\ stack' = st.stack
                          /\ seen' = st.seen
                          /\ repos' = st.repos
    /\ UNCHANGED <<mode, pc, fuzzyVars, items, ranked, rootExists, output, sortCalled, fs, owners>>

\* One iteration of the while loop: a directory is popped and listed.
ScanDir ==
    /\ mode = "discover" /\ pc = "scan"
    /\ stack # <<>>
    /\ LET dir == stack[Len(stack)]
           popped == [stack |-> SubSeq(stack, 1, Len(stack) - 1),
                      seen |-> seen, repos |-> repos]
       IN  /\ listed' = [listed EXCEPT ![dir] = @ + 1]
           /\ IF ~can_read_dir(fs, dir)
              THEN /\ stack' = popped.stack                       \* Err(_) => continue
                   /\ UNCHANGED <<seen, repos>>
              ELSE \E ord \in Orders(read_dir(fs, dir)) :
                      LET st == scan_entries(popped, fs, ScanRoot, dir, ord)
                      IN  /\ stack' = st.stack
                          /\ seen' = st.seen
                          /\ repos' = st.repos
    /\ UNCHANGED <<mode, pc, fuzzyVars, items, ranked, rootExists, output, sortCalled, fs, owners>>

\* Variant: the entries are returned in the order they were found.
FinishDiscover_unsorted ==
    /\ mode = "discover" /\ pc = "scan"
    /\ stack = <<>>
    /\ repos' = repos
    /\ pc' = "done"
    /\ UNCHANGED <<mode, fuzzyVars, items, ranked, rootExists, output, sortCalled, scanVars>>

\* The stack is empty: the entries are sorted by display and returned.
FinishDiscover ==
    /\ mode = "discover" /\ pc = "scan"
    /\ stack = <<>>
    /\ repos' = sort_by(repos, DisplayLess(repos))
    /\ pc' = "done"
    /\ UNCHANGED <<mode, fuzzyVars, items, ranked, rootExists, output, sortCalled, scanVars>>

(***************************************************************************)
(* Discovery: discover_repos_structured                                    *)
(***************************************************************************)

\* Path::is_dir of the path of a listed entry: unlike file_type, it follows
\* symbolic links.
path_is_dir(tree, e) ==
    e.is_dir \/ (e.path \in DOMAIN tree /\ tree[e.path] = "symlink")

\* Variant: only a .git directory counts.
git_exists_dir_only(tree, path) == path \in DOMAIN tree /\ tree[path] = "repo"

\* Path::exists of path.join(".git")
git_exists(tree, path) == path \in DOMAIN tree /\ tree[path] \in {"repo", "worktree"}

\* Variant: the skip rule of discover_repos is applied.
is_hidden_or_noise(name) == should_skip_dir(name)

\* name.starts_with('.')
is_hidden(name) == StartsWith(name, Chars("."))

\* format!("{}/{}", owner_name, repo_name)
owner_repo(owner_name, repo_name) == owner_name \o Chars("/") \o repo_name

\* Variant: a directory below the repo level is examined as well.
structured_repo_entry_deeper(rs, tree, owner_name, e) ==
    IF ~path_is_dir(tree, e)
    THEN rs
    ELSE IF is_hidden(file_name(e.path))
    THEN rs
    ELSE IF git_exists(tree, e.path)
    THEN Append(rs, [display |-> owner_repo(owner_name, file_name(e.path)),
                     path |-> e.path])
    ELSE LET below == { x \in DOMAIN tree : x # e.path /\ parent(x) = e.path
                                             /\ git_exists(tree, x) }
         IN  IF below = {}
             THEN rs
             ELSE LET x == CHOOSE y \in below : TRUE
                  IN  Append(rs, [display |-> owner_repo(owner_name, file_name(e.path)),
                                  path |-> x])

\* The body of the inner for loop for one entry e of an owner directory.
structured_repo_entry(rs, tree, owner_name, e) ==
    IF ~path_is_dir(tree, e)
    THEN rs
    ELSE IF is_hidden(file_name(e.path))
    THEN rs
    ELSE IF git_exists(tree, e.path)
    THEN Append(rs, [display |-> owner_repo(owner_name, file_name(e.path)),
                     path |-> e.path])
    ELSE rs

\* The inner for loop over the entries of an owner directory, in the order ord.
RECURSIVE structured_repo_entries(_, _, _, _)
structured_repo_entries(rs, tree, owner_name, ord) ==
    IF ord = <<>>
    THEN rs
    ELSE structured_repo_entries(structured_repo_entry(rs, tree, owner_name, Head(ord)),
                                 tree, owner_name, Tail(ord))

\* discover_repos_structured(root) up to the outer for loop: the root is
\* listed; when that fails the empty list is returned at once.
StartStructured ==
    /\ mode = "discover" /\ pc = "setup"
    /\ mode' = "structured"
    /\ repos' = <<>>
    /\ listed' = [x \in DOMAIN fs |-> IF x = ScanRoot THEN 1 ELSE 0]
    /\ IF ~can_read_dir(fs, ScanRoot)
       THEN /\ pc' = "done"                                  \* Err(_) => return repos
            /\ owners' = {}
       ELSE /\ pc' = "owners"
            /\ owners' = read_dir(fs, ScanRoot)
    /\ UNCHANGED <<fuzzyVars, items, ranked, rootExists, output, sortCalled, fs, stack, seen>>

\* The body of the outer for loop for the owner entry owner_entry: when it is
\* a non-hidden directory that can be listed, its entries are examined.
structured_owner_entry(owner_entry) ==
       LET owner_path == owner_entry.path
           owner_name == file_name(owner_path)
       IN  IF ~path_is_dir(fs, owner_entry) \/ is_hidden(owner_name)
           THEN UNCHANGED <<repos, listed>>
           ELSE /\ listed' = [x \in DOMAIN listed \cup {owner_path} |->
                                 IF x = owner_path
                                 THEN (IF x \in DOMAIN listed THEN listed[x] ELSE 0) + 1
                                 ELSE listed[x]]
                /\ IF ~can_read_dir(fs, owner_path)
                   THEN UNCHANGED repos                      \* Err(_) => continue
                   ELSE \E ord \in Orders(read_dir(fs, owner_path)) :
                           repos' = structured_repo_entries(repos, fs, owner_name, ord)

\* One iteration of the outer for loop: the listing of the root yields its
\* next entry, whichever that is.
ScanOwner ==
    /\ mode = "structured" /\ pc = "owners"
    /\ \E owner_entry \in owners :
          /\ owners' = owners \ {owner_entry}
          /\ structured_owner_entry(owner_entry)
    /\ UNCHANGED <<mode, pc, fuzzyVars, items, ranked, rootExists, output, sortCalled,
                   fs, stack, seen>>

\* The owners are exhausted: the entries are sorted by display and returned.
FinishStructured ==
    /\ mode = "structured" /\ pc = "owners"
    /\ owners = {}
    /\ repos' = sort_by(repos, DisplayLess(repos))
    /\ pc' = "done"
    /\ UNCHANGED <<mode, fuzzyVars, items, ranked, rootExists, output, sortCalled, scanVars>>

NextDiscover ==
    \/ Create
    \/ StartDiscover
    \/ ScanDir
    \/ FinishDiscover
    \/ StartStructured
    \/ ScanOwner
    \/ FinishStructured

SpecDiscover == InitDiscover /\ [][NextDiscover]_vars

(***************************************************************************)
(* Reference notions the properties are stated with                        *)
(***************************************************************************)

\* q occurs in t as an ordered, not necessarily contiguous, subsequence.
IsSubsequence(q, t) ==
    \E p \in [1..Len(q) -> 1..Len(t)] :
        /\ \A k \in 1..Len(q) : t[p[k]] = q[k]
        /\ \A k \in 2..Len(q) : p[k - 1] < p[k]

\* p gives, for each query character, the 0-based target position at which a
\* left-to-right scan consumes it: the first occurrence after the previous one.
IsGreedyEmbedding(q, t, p) ==
    \A k \in 1..Len(q) :
        LET from == IF k = 1 THEN 0 ELSE p[k - 1] + 1
        IN  /\ from <= p[k]
            /\ t[p[k] + 1] = q[k]
            /\ \A j \in from..(p[k] - 1) : t[j + 1] # q[k]

GreedyPositions(q, t) ==
    CHOOSE p \in [1..Len(q) -> 0..(Len(t) - 1)] : IsGreedyEmbedding(q, t, p)

\* The number of matched positions immediately before the k-th that form an
\* unbroken run with it.
RunCounter(p, k) ==
    Cardinality({ j \in 1..(k - 1) : \A m \in j..(k - 1) : p[m + 1] = p[m] + 1 })

\* What the k-th matched position contributes, as the scoring rules state it.
PositionCredit(t, p, k) ==
    5 + (IF p[k] = 0 THEN 20 ELSE 0)
      + (IF p[k] > 0 /\ t[p[k]] \in {"/", "-", "_", " "} THEN 15 ELSE 0)
      + (IF k > 1 /\ p[k] = p[k - 1] + 1 THEN 10 * RunCounter(p, k) ELSE 0)

RECURSIVE CreditSum(_, _, _)
CreditSum(t, p, n) == IF n = 0 THEN 0 ELSE CreditSum(t, p, n - 1) + PositionCredit(t, p, n)

FoldedQuery == to_lowercase(query)
FoldedTarget == to_lowercase(target)
FoldedOther == to_lowercase(other)

\* Some matched position of the target follows an unmatched character.
HasGap(p) == \E k \in 2..Len(p) : p[k] # p[k - 1] + 1

\* No character matched right after a gap follows a separator.
NoSeparatorAfterGap(t, p) ==
    \A k \in 2..Len(p) : p[k] # p[k - 1] + 1 => ~IsSeparator(t[p[k]])

(***************************************************************************)
(* Properties of fuzzy_match and fuzzy_score                               *)
(***************************************************************************)

\* The target is matched from position 0 with at least one gap, the other
\* target begins with the query (a contiguous match from position 0).
C1_Case ==
    /\ mode = "fuzzy" /\ pc = "scored"
    /\ query # <<>>
    /\ matched
    /\ StartsWith(FoldedOther, FoldedQuery)
    /\ LET p == GreedyPositions(FoldedQuery, FoldedTarget)
       IN  p[1] = 0 /\ HasGap(p)

\* C1 as stated: consecutive matches outscore equally long non-consecutive
\* matches, fuzzy_score("ab", "ab-x") > fuzzy_score("ab", "a-b").
C1_Original ==
    (C1_Case /\ query = Chars("ab") /\ target = Chars("a-b") /\ other = Chars("ab-x"))
        => otherScore > score

\* C1 amended: a contiguous match from position 0 outscores a match of the
\* same query from position 0 with a gap, provided no character matched after
\* a gap follows a separator: fuzzy_score("ab", "ab-x") = 40 exceeds
\* fuzzy_score("ab", "axb") = 30, but fuzzy_score("ab", "a-b") = 45.
C1_ConsecutiveOutscoresPlainGap ==
    C1_Case =>
        /\ NoSeparatorAfterGap(FoldedTarget, GreedyPositions(FoldedQuery, FoldedTarget))
              => otherScore > score
        /\ (query = Chars("ab") /\ other = Chars("ab-x")) => otherScore = 40
        /\ (query = Chars("ab") /\ target = Chars("axb")) => score = 30
        /\ (query = Chars("ab") /\ target = Chars("a-b")) => score = 45

C1_Witness ==
    /\ C1_Case
    /\ NoSeparatorAfterGap(FoldedTarget, GreedyPositions(FoldedQuery, FoldedTarget))
    /\ Len(query) = 2 /\ Len(target) > 3
    /\ otherScore > score

\* The query's first character is first matched after position 0 of the
\* target, or the query does not match the target at all; the other target
\* begins with the query.
C2_Case ==
    /\ mode = "fuzzy" /\ pc = "scored"
    /\ query # <<>>
    /\ StartsWith(FoldedOther, FoldedQuery)
    /\ \/ ~IsSubsequence(FoldedQuery, FoldedTarget)
       \/ FoldedTarget[1] # FoldedQuery[1]

C2_TieCase ==
    /\ Len(FoldedQuery) = 2
    /\ ~IsSeparator(FoldedQuery[2])
    /\ IsSubsequence(FoldedQuery, FoldedTarget)
    /\ LET p == GreedyPositions(FoldedQuery, FoldedTarget)
       IN  \A k \in 1..2 : p[k] > 0 /\ IsSeparator(FoldedTarget[p[k]])

C2_WitnessNearTie ==
    /\ C2_Case
    /\ query = Chars("abc") /\ target = Chars("-a-b-c")
    /\ score = 60 /\ otherScore = 65

\* A two-character query that does not match, or matches with one of its
\* characters after a letter, scores strictly lower: "ab" in "-aab" is 25.
C2_WitnessStrictTwo ==
    /\ C2_Case
    /\ matched /\ Len(query) = 2 /\ ~C2_TieCase
    /\ otherScore > score

\* C3: when fuzzy_match(query, target) is false, fuzzy_score(query, target)
\* is exactly -1, whatever partial score the scan accrued.
C3_NoMatchScoresMinusOne ==
    (mode = "fuzzy" /\ pc = "scored" /\ ~matched) => score = -1

\* A failed match in which some query characters were consumed and credited.
C3_Witness ==
    /\ mode = "fuzzy" /\ pc = "scored"
    /\ ~matched
    /\ fuzzy_score_loop(FoldedQuery, FoldedTarget, ScoreInit, 0).score > 0
    /\ score = -1

\* C4: for a non-empty query, fuzzy_match is true exactly when the case-folded
\* query is an ordered subsequence of the case-folded target.
C4_MatchIsSubsequence ==
    (mode = "fuzzy" /\ pc # "ready" /\ query # <<>>)
        => (matched <=> IsSubsequence(FoldedQuery, FoldedTarget))

\* A match that needs case folding and is not a substring.
C4_Witness ==
    /\ mode = "fuzzy" /\ pc = "matched"
    /\ matched
    /\ Len(query) = 2
    /\ query # FoldedQuery
    /\ target # FoldedTarget
    /\ \A i \in 1..(Len(target) - 1) : SubSeq(FoldedTarget, i, i + 1) # FoldedQuery

\* C5: fuzzy_match("", t) is true for every target t, the empty one included.
C5_EmptyQueryMatches ==
    (mode = "fuzzy" /\ pc # "ready" /\ query = <<>>) => matched

C5_Witness ==
    /\ mode = "fuzzy" /\ pc = "matched"
    /\ query = <<>> /\ target = <<>>
    /\ matched

\* C6: for a matching query, fuzzy_score is the sum over the positions the
\* greedy scan consumes of 5, plus 20 at position 0, plus 15 after a
\* separator, plus 10 times the run counter at a position one past the
\* previous matched position.
C6_ScoreIsSumOfCredits ==
    (mode = "fuzzy" /\ pc = "scored" /\ matched) =>
        score = CreditSum(FoldedTarget,
                          GreedyPositions(FoldedQuery, FoldedTarget),
                          Len(FoldedQuery))

\* A score made of a start bonus, a run bonus and a separator bonus.
C6_Witness ==
    /\ mode = "fuzzy" /\ pc = "scored"
    /\ matched
    /\ Len(query) = 3
    /\ LET p == GreedyPositions(FoldedQuery, FoldedTarget)
       IN  p[1] = 0 /\ p[2] = 1 /\ p[3] = 3 /\ IsSeparator(FoldedTarget[3])
    /\ score = 25 + 15 + 20

(***************************************************************************)
(* Properties of fuzzy_sort and of the search commands                     *)
(***************************************************************************)

KeyScore(item) == fuzzy_score(query, item.key)

\* C7: fuzzy_sort orders the items by descending score of their key and is
\* stable: no item with a lower score precedes one with a higher score, and
\* items with the same score keep their relative input order.
C7_SortDescendingStable ==
    (mode = "sort" /\ pc = "done") =>
        /\ Len(ranked) = Len(items)
        /\ {ranked[i] : i \in DOMAIN ranked} = {items[i] : i \in DOMAIN items}
        /\ \A i \in DOMAIN ranked, j \in DOMAIN ranked :
              i < j =>
                 /\ KeyScore(ranked[i]) >= KeyScore(ranked[j])
                 /\ KeyScore(ranked[i]) = KeyScore(ranked[j]) => ranked[i].id < ranked[j].id

\* A slice that is reordered, with two different keys of the same score.
C7_Witness ==
    /\ mode = "sort" /\ pc = "done"
    /\ Len(items) = 3
    /\ ranked # items
    /\ ranked[1].key # ranked[2].key
    /\ KeyScore(ranked[1]) = KeyScore(ranked[2])
    /\ KeyScore(ranked[2]) > KeyScore(ranked[3])
    /\ KeyScore(ranked[3]) >= 0

\* C8: with an empty query fuzzy_sort leaves the slice unchanged, and the
\* search commands do not call fuzzy_sort: their output keeps the
\* ascending-display order of discovery.
C8_EmptyQueryKeepsOrder ==
    (pc = "done" /\ query = <<>>) =>
        /\ mode = "sort" => ranked = items
        /\ mode \in {"code", "repos"} =>
              /\ ~sortCalled
              /\ (rootExists /\ repos # <<>>) =>
                    /\ Len(output) = Len(repos)
                    /\ \A i \in DOMAIN output :
                          output[i].match = repos[i].display /\ output[i].uid = repos[i].path
                    /\ \A i \in DOMAIN output, j \in DOMAIN output :
                          i < j => StringLess(output[i].match, output[j].match)

\* An empty query on three items that a non-empty query would reorder.
C8_Witness ==
    /\ mode = "sort" /\ pc = "done"
    /\ query = <<>>
    /\ Len(items) = 3
    /\ ranked = items
    /\ fuzzy_sort(items, Chars("ab"), "key") # items

\* An empty query in a search command over three repositories.
C8_WitnessCommand ==
    /\ mode = "code" /\ pc = "done"
    /\ query = <<>>
    /\ Len(repos) = 3
    /\ Len(output) = 3
    /\ ~sortCalled

(***************************************************************************)
(* Properties of discover_repos                                            *)
(***************************************************************************)

\* The segments of a '/'-separated string.
Segments(str) ==
    LET n == Len(str)
        starts == { i \in 1..n : str[i] # "/" /\ (i = 1 \/ str[i - 1] = "/") }
        end(i) == CHOOSE j \in i..n :
                      /\ j = n \/ str[j + 1] = "/"
                      /\ \A k \in i..j : str[k] # "/"
    IN  { SubSeq(str, i, end(i)) : i \in starts }

\* The path components of a path below the scan root.
BelowRoot(path) == Segments(SubSeq(path, Len(ScanRoot) + 2, Len(path)))

\* A directory name discovery must stay out of.
NoiseNames ==
    { Chars("node_modules"), Chars("target"), Chars("dist"), Chars("build"),
      Chars("__pycache__"), Chars("venv"), Chars("vendor"), Chars("Pods") }

IsNoise(name) == name[1] = "." \/ name \in NoiseNames

Clean(path) == \A c \in BelowRoot(path) : ~IsNoise(c)

\* C9: discover_repos never lists or descends into a directory whose name
\* starts with '.' or is one of the noise names: no listed, stacked or
\* returned path has such a component below the root, and should_skip_dir
\* holds of every such name.
C9_NoiseDirectoriesPruned ==
    /\ \A n \in NoiseNames \cup {Chars(".git"), Chars(".h")} : should_skip_dir(n)
    /\ (mode = "discover" /\ pc \in {"scan", "done"}) =>
          /\ \A i \in DOMAIN repos : Clean(repos[i].path)
          /\ \A i \in DOMAIN stack : Clean(stack[i])
          /\ \A x \in DOMAIN listed : listed[x] > 0 => Clean(x)

\* A repository inside node_modules beside a repository that is returned.
C9_Witness ==
    /\ mode = "discover" /\ pc = "done"
    /\ join(join(ScanRoot, Chars("node_modules")), Chars("a")) \in DOMAIN fs
    /\ fs[join(join(ScanRoot, Chars("node_modules")), Chars("a"))] = "repo"
    /\ Len(repos) = 1

\* C10: the list discover_repos builds and returns never holds two entries
\* with the same path.
C10_PathsUnique ==
    (mode = "discover" /\ pc \in {"scan", "done"}) =>
        \A i \in DOMAIN repos, j \in DOMAIN repos :
            repos[i].path = repos[j].path => i = j

\* Two repositories found in two different directories.
C10_Witness ==
    /\ mode = "discover" /\ pc = "done"
    /\ Len(repos) = 2
    /\ \E i \in DOMAIN repos, j \in DOMAIN repos : parent(repos[i].path) # parent(repos[j].path)

(***************************************************************************)
(* C11                                                                     *)
(***************************************************************************)

\* a <= b in byte-lexicographic order, character by character.
RECURSIVE LexLeq(_, _)
LexLeq(a, b) ==
    IF a = <<>> THEN TRUE
    ELSE IF b = <<>> THEN FALSE
    ELSE IF a[1] = b[1] THEN LexLeq(Tail(a), Tail(b))
    ELSE ByteRank[a[1]] < ByteRank[b[1]]

SortedByDisplay(rs) ==
    \A i \in DOMAIN rs, j \in DOMAIN rs : i < j => LexLeq(rs[i].display, rs[j].display)

\* C11: the list discover_repos returns and the list
\* discover_repos_structured returns are sorted ascending by display in
\* byte-lexicographic order, whatever the tree and the listing orders.
C11_ResultSortedByDisplay ==
    (mode \in {"discover", "structured"} /\ pc = "done") => SortedByDisplay(repos)

\* discover_repos returned "a-b" before "a/a": '-' is the smaller byte.
C11_Witness ==
    /\ mode = "discover" /\ pc = "done"
    /\ Len(repos) = 2
    /\ repos[1].display = Chars("a-b")
    /\ repos[2].display = Chars("a/a")

\* discover_repos_structured returned two repositories of one owner.
C11_WitnessStructured ==
    /\ mode = "structured" /\ pc = "done"
    /\ Len(repos) = 2
    /\ repos[1].display = Chars("a/a")
    /\ repos[2].display = Chars("a/node_modules")

(***************************************************************************)
(* C12                                                                     *)
(***************************************************************************)

Hidden(name) == name # <<>> /\ name[1] = "."

\* p is root/owner/repo: a non-hidden directory that holds a .git directory
\* or a .git file, in a non-hidden directory directly under the root.
IsOwnerRepo(p) ==
    /\ p \in DOMAIN fs
    /\ parent(p) \in DOMAIN fs
    /\ parent(parent(p)) = ScanRoot
    /\ fs[parent(p)] \in DirKinds
    /\ fs[p] \in {"repo", "worktree"}
    /\ ~Hidden(file_name(parent(p)))
    /\ ~Hidden(file_name(p))

\* The entry the claim expects for root/owner/repo.
OwnerRepoEntry(p) ==
    [display |-> SubSeq(p, Len(ScanRoot) + 2, Len(p)), path |-> p]

Returned(entry) == \E i \in DOMAIN repos : repos[i] = entry

\* C12 as stated: every root/owner/repo that holds .git is returned by
\* discover_repos_structured as {display: "owner/repo", path: root/owner/repo}.
C12_Original ==
    (mode = "structured" /\ pc = "done") =>
        \A p \in DOMAIN fs : IsOwnerRepo(p) => Returned(OwnerRepoEntry(p))

\* C12, amended: every root/owner/repo that holds .git is returned by
\* discover_repos_structured as {display: "owner/repo", path: root/owner/repo}
\* when the root and the owner directory can be listed.
C12_ListableOwnerRepoReturned ==
    (mode = "structured" /\ pc = "done") =>
        \A p \in DOMAIN fs :
            (IsOwnerRepo(p) /\ fs[ScanRoot] # "locked" /\ fs[parent(p)] # "locked")
                => Returned(OwnerRepoEntry(p))

\* root/a/a holds a .git file and is the one entry returned.
C12_Witness ==
    /\ mode = "structured" /\ pc = "done"
    /\ IsOwnerRepo(join(join(ScanRoot, Chars("a")), Chars("a")))
    /\ fs[join(join(ScanRoot, Chars("a")), Chars("a"))] = "worktree"
    /\ repos = << [display |-> Chars("a/a"),
                   path |-> join(join(ScanRoot, Chars("a")), Chars("a"))] >>

(***************************************************************************)
(* C13                                                                     *)
(***************************************************************************)

\* The directories directly under the root that discover_repos does not skip.
RootChildren ==
    { p \in DOMAIN fs : p # ScanRoot /\ parent(p) = ScanRoot
                        /\ fs[p] \in DirKinds /\ Clean(p) }

\* C13: discover_repos never returns the scan root itself, with or without a
\* .git entry in the root; a root that holds .git is listed all the same, its
\* child repositories are returned and its other child directories listed.
C13_RootNeverReturned ==
    /\ (mode = "discover" /\ pc \in {"scan", "done"}) =>
          \A i \in DOMAIN repos :
              repos[i].path # ScanRoot /\ repos[i].display # <<>>
    /\ (mode = "discover" /\ pc = "done" /\ fs[ScanRoot] \in {"repo", "worktree"}) =>
          /\ listed[ScanRoot] = 1
          /\ \A p \in RootChildren :
                IF fs[p] \in {"repo", "worktree"}
                THEN \E i \in DOMAIN repos : repos[i].path = p
                ELSE listed[p] = 1

\* The root holds .git; its child "a" is the repository returned and its
\* child "a-b" was listed.
C13_Witness ==
    /\ mode = "discover" /\ pc = "done"
    /\ fs[ScanRoot] = "repo"
    /\ join(ScanRoot, Chars("a")) \in DOMAIN fs
    /\ join(ScanRoot, Chars("a-b")) \in DOMAIN fs
    /\ fs[join(ScanRoot, Chars("a-b"))] = "dir"
    /\ listed[join(ScanRoot, Chars("a-b"))] = 1
    /\ repos = << [display |-> Chars("a"), path |-> join(ScanRoot, Chars("a"))] >>

(***************************************************************************)
(* C14                                                                     *)
(***************************************************************************)

\* The directories strictly between the root and p.
RECURSIVE Between(_)
Between(p) ==
    IF p = ScanRoot \/ parent(p) = ScanRoot \/ Len(p) <= Len(ScanRoot)
    THEN {}
    ELSE {parent(p)} \cup Between(parent(p))

\* p is a repository below the root that is not skipped itself and is reached
\* from a readable root through readable, non-skipped, non-repository
\* directories.
ReachableRepo(p) ==
    /\ p \in DOMAIN fs /\ p # ScanRoot
    /\ fs[p] \in {"repo", "worktree"}
    /\ Clean(p)
    /\ fs[ScanRoot] # "locked"
    /\ \A d \in Between(p) : fs[d] = "dir"

ReturnedPaths == { repos[i].path : i \in DOMAIN repos }

\* C14: a directory whose listing fails is skipped and the scan goes on.
\* discover_repos returns every repository reached from the root through
\* readable, non-skipped, non-repository directories, whatever else fails to
\* list; discover_repos_structured returns the empty list when the root
\* cannot be listed, and otherwise exactly the repositories of the owners
\* that can be listed.
C14_ListingFailureSkipped ==
    /\ (mode = "discover" /\ pc = "done") =>
          \A p \in DOMAIN fs : ReachableRepo(p) => p \in ReturnedPaths
    /\ (mode = "structured" /\ pc = "done" /\ fs[ScanRoot] = "locked") =>
          repos = <<>>
    /\ (mode = "structured" /\ pc = "done" /\ fs[ScanRoot] # "locked") =>
          ReturnedPaths = { p \in DOMAIN fs : IsOwnerRepo(p) /\ fs[parent(p)] # "locked" }

\* discover_repos met a directory that it could not list and returned the
\* repository beside it.
C14_Witness ==
    /\ mode = "discover" /\ pc = "done"
    /\ \E d \in DOMAIN fs : fs[d] = "locked" /\ Clean(d) /\ listed[d] = 1
    /\ \E p \in DOMAIN fs : ReachableRepo(p) /\ p \in ReturnedPaths

\* discover_repos_structured met an owner that it could not list and returned
\* the repository of another owner.
C14_WitnessStructured ==
    /\ mode = "structured" /\ pc = "done"
    /\ \E d \in DOMAIN fs : parent(d) = ScanRoot /\ fs[d] = "locked" /\ listed[d] = 1
    /\ Len(repos) = 1

\* discover_repos_structured could not list the owner of a repository and
\* returned nothing.
C14_WitnessLostOwner ==
    /\ mode = "structured" /\ pc = "done"
    /\ \E p \in DOMAIN fs : IsOwnerRepo(p) /\ fs[parent(p)] = "locked"
    /\ repos = <<>>

(***************************************************************************)
(* C15                                                                     *)
(***************************************************************************)

\* The display of an entry matches the query.
DisplayMatches(e) == IsSubsequence(FoldedQuery, to_lowercase(e.display))

\* The index in repos of the entry an output item was built from.
EntryIndex(item) ==
    CHOOSE k \in DOMAIN repos : repos[k].path = item.uid /\ repos[k].display = item.match

\* The score fuzzy_sort gives an output item.
TitleScore(item) == fuzzy_score(query, item.title)

\* A search command listed the entries discovery returned for a non-empty
\* query.
SearchRanked ==
    /\ mode \in {"code", "repos"} /\ pc = "done"
    /\ rootExists /\ repos # <<>> /\ query # <<>>

\* C15: for a non-empty query a search command outputs exactly the discovered
\* entries whose display matches the query, one item each, ordered by
\* descending score, items of equal score in the order of discovery.
C15_SearchFiltersAndRanks ==
    SearchRanked =>
        /\ \A i \in DOMAIN output :
              \E k \in DOMAIN repos :
                  /\ repos[k].path = output[i].uid
                  /\ repos[k].display = output[i].match
                  /\ DisplayMatches(repos[k])
        /\ \A k \in DOMAIN repos :
              DisplayMatches(repos[k]) => \E i \in DOMAIN output : output[i].uid = repos[k].path
        /\ \A i \in DOMAIN output, j \in DOMAIN output :
              i < j =>
                 /\ output[i].uid # output[j].uid
                 /\ TitleScore(output[i]) >= TitleScore(output[j])
                 /\ TitleScore(output[i]) = TitleScore(output[j])
                       => EntryIndex(output[i]) < EntryIndex(output[j])

\* Three entries were discovered, one does not match, and the two that do
\* are output in the reverse of their discovery order.
C15_Witness ==
    /\ SearchRanked
    /\ Len(repos) = 3
    /\ Len(output) = 2
    /\ EntryIndex(output[1]) > EntryIndex(output[2])
    /\ TitleScore(output[1]) > TitleScore(output[2])

(***************************************************************************)
(* C16                                                                     *)
(***************************************************************************)

\* C16: fuzzy_score("", t) is 0 for every target t.
C16_EmptyQueryScoresZero ==
    (mode = "fuzzy" /\ pc = "scored" /\ query = <<>>) => (score = 0 /\ otherScore = 0)

\* The empty query was scored against a target of several characters.
C16_Witness ==
    /\ mode = "fuzzy" /\ pc = "scored"
    /\ query = <<>>
    /\ Len(target) >= 2
    /\ score = 0

(***************************************************************************)
(* C17                                                                     *)
(***************************************************************************)

\* C17: in the search commands every item that passed the fuzzy_match filter
\* on its display has a non-negative fuzzy_score on its title, the string
\* fuzzy_sort ranks it by, so the sentinel -1 never takes part in ranking.
C17_SentinelNeverRanked ==
    (SearchRanked /\ sortCalled) =>
        \A i \in DOMAIN output : TitleScore(output[i]) >= 0

\* An item whose display matches the query and whose condensed title does
\* not was ranked with the sentinel.
C17_SentinelRanked ==
    /\ SearchRanked /\ sortCalled
    /\ \E i \in DOMAIN output :
          /\ fuzzy_match(query, output[i].match)
          /\ output[i].title # output[i].match
          /\ TitleScore(output[i]) = NoMatchScore

(***************************************************************************)
(* C18                                                                     *)
(***************************************************************************)

\* A directory below the root that discover_repos classifies as a repository
\* when it meets it: it holds a .git directory or a .git file.
IsRepoDir(p) == p \in DOMAIN fs /\ p # ScanRoot /\ fs[p] \in {"repo", "worktree"}

\* C18: discover_repos treats a repository as a leaf. A directory classified
\* as a repository is never on the work-stack and never listed, no returned
\* path lies strictly inside another returned path, and a repository inside
\* a repository below the root is not returned.
C18_RepositoryIsLeaf ==
    (mode = "discover" /\ pc \in {"scan", "done"}) =>
        /\ \A i \in DOMAIN stack : ~IsRepoDir(stack[i])
        /\ \A x \in DOMAIN listed : IsRepoDir(x) => listed[x] = 0
        /\ \A i \in DOMAIN repos, j \in DOMAIN repos :
              ~StartsWith(repos[j].path, repos[i].path \o Chars("/"))
        /\ \A p \in DOMAIN fs :
              (\E d \in Between(p) : IsRepoDir(d)) => p \notin ReturnedPaths

\* The repository a/a holds the repository a/a/a; only a/a is returned.
C18_Witness ==
    /\ mode = "discover" /\ pc = "done"
    /\ IsRepoDir(join(join(ScanRoot, Chars("a")), Chars("a")))
    /\ IsRepoDir(join(join(join(ScanRoot, Chars("a")), Chars("a")), Chars("a")))
    /\ ReturnedPaths = { join(join(ScanRoot, Chars("a")), Chars("a")) }

(***************************************************************************)
(* C19                                                                     *)
(***************************************************************************)

\* The number of path components of p below the root.
Depth(p) == Cardinality({ i \in (Len(ScanRoot) + 1)..Len(p) : p[i] = "/" })

\* C19: discover_repos_structured examines exactly two levels. Every entry
\* it returns has a path root/<owner>/<repo>, so neither a directory directly
\* under the root that holds .git nor a repository at depth three or deeper
\* is returned, and only the root and directories directly under it are
\* listed.
C19_ExactlyTwoLevels ==
    (mode = "structured" /\ pc \in {"owners", "done"}) =>
        /\ \A i \in DOMAIN repos :
              /\ parent(parent(repos[i].path)) = ScanRoot
              /\ Depth(repos[i].path) = 2
        /\ \A p \in DOMAIN fs : Depth(p) # 2 => p \notin ReturnedPaths
        /\ \A x \in DOMAIN listed : listed[x] > 0 => Depth(x) <= 1

\* The owner a holds .git, and so do a/a and a/a/a; only a/a is returned.
C19_Witness ==
    /\ mode = "structured" /\ pc = "done"
    /\ join(ScanRoot, Chars("a")) \in DOMAIN fs
    /\ fs[join(ScanRoot, Chars("a"))] = "repo"
    /\ IsRepoDir(join(join(join(ScanRoot, Chars("a")), Chars("a")), Chars("a")))
    /\ ReturnedPaths = { join(join(ScanRoot, Chars("a")), Chars("a")) }

(***************************************************************************)
(* C20                                                                     *)
(***************************************************************************)

\* The noise names the claim lists; none of them is hidden.
StructuredNoise ==
    { Chars("node_modules"), Chars("target"), Chars("build"), Chars("dist"), Chars("vendor") }

\* p is root/owner/repo with a noise name for the owner or for the repo.
HasNoiseName(p) ==
    file_name(p) \in StructuredNoise \/ file_name(parent(p)) \in StructuredNoise

\* should_skip_dir holds of every noise name, and none of them is hidden.
NoiseSkippedNotHidden ==
    \A n \in StructuredNoise : should_skip_dir(n) /\ ~Hidden(n)

\* C20: discover_repos_structured skips an owner or a repo directory only
\* when its name starts with '.'. A repository root/owner/repo whose owner or
\* repo is named node_modules, target, build, dist or vendor is returned (the
\* root and the owner being listable), although should_skip_dir holds of the
\* name and discover_repos does not return it; no returned entry has a hidden
\* owner or repo.
C20_StructuredSkipsHiddenOnly ==
    /\ NoiseSkippedNotHidden
    /\ (mode = "structured" /\ pc = "done") =>
          \A p \in DOMAIN fs :
              (/\ IsOwnerRepo(p) /\ HasNoiseName(p)
               /\ fs[ScanRoot] # "locked" /\ fs[parent(p)] # "locked")
                  => p \in ReturnedPaths
    /\ (mode = "structured" /\ pc \in {"owners", "done"}) =>
          \A i \in DOMAIN repos :
              /\ ~Hidden(file_name(repos[i].path))
              /\ ~Hidden(file_name(parent(repos[i].path)))
    /\ (mode = "discover" /\ pc = "done") =>
          \A p \in DOMAIN fs :
              (Depth(p) = 2 /\ HasNoiseName(p)) => p \notin ReturnedPaths

\* The repository of the owner node_modules is returned.
C20_Witness ==
    /\ mode = "structured" /\ pc = "done"
    /\ IsOwnerRepo(join(join(ScanRoot, Chars("node_modules")), Chars("a")))
    /\ join(join(ScanRoot, Chars("node_modules")), Chars("a")) \in ReturnedPaths

\* The repository named node_modules is returned, the hidden one beside it
\* is not.
C20_WitnessRepoName ==
    /\ mode = "structured" /\ pc = "done"
    /\ IsRepoDir(join(join(ScanRoot, Chars("a")), Chars(".h")))
    /\ ReturnedPaths = { join(join(ScanRoot, Chars("a")), Chars("node_modules")) }

(***************************************************************************)
(* C21                                                                     *)
(***************************************************************************)

\* discover_repos runs to its end: the loop body and the return after the
\* loop are steps of one sequential call, taken whenever they can be.
SpecDiscoverFair ==
    /\ InitDiscover
    /\ [][NextDiscover]_vars
    /\ WF_vars(ScanDir)
    /\ WF_vars(FinishDiscover)

\* What discover_repos may push: a real directory (no link, no file) that
\* is an entry of a directory already listed, has no skipped name and holds
\* no .git entry.
Pushable(p) ==
    /\ p \in DOMAIN fs /\ p # ScanRoot
    /\ fs[p] \in {"dir", "locked"}
    /\ ~IsNoise(file_name(p))
    /\ parent(p) \in DOMAIN listed /\ listed[parent(p)] = 1

DiscoverRunning == mode = "discover" /\ pc = "scan"
DiscoverReturned == mode = "discover" /\ pc = "done"

\* C21: the work-stack traversal of discover_repos terminates, each
\* directory is popped and listed at most once, and the stack only ever
\* holds the root or a pushable directory, each at most once and none that
\* was listed already. The loop is entered once per call, so it terminates
\* when from some point on it is never running again.
C21_TerminatesListingOnce ==
    /\ [] ((DiscoverRunning \/ DiscoverReturned) =>
              /\ \A x \in DOMAIN listed : listed[x] <= 1
              /\ \A i \in DOMAIN stack :
                    /\ stack[i] = ScanRoot \/ Pushable(stack[i])
                    /\ listed[stack[i]] = 0
                    /\ \A j \in DOMAIN stack : stack[i] = stack[j] => i = j)
    /\ <>[] ~DiscoverRunning

\* The call returned after listing the root and two more directories, one
\* inside the other, and passing by a link without listing it.
C21_Witness ==
    /\ DiscoverReturned
    /\ \E d \in DOMAIN fs, e \in DOMAIN fs :
          /\ parent(d) = ScanRoot /\ parent(e) = d
          /\ listed[ScanRoot] = 1 /\ listed[d] = 1 /\ listed[e] = 1
    /\ \E s \in DOMAIN fs : fs[s] = "symlink" /\ listed[s] = 0

(***************************************************************************)
(* C22                                                                     *)
(***************************************************************************)

\* The run counter as the claim states it: 0 at the first matched position,
\* one more at a matched position right after the previous one, 0 after a gap.
RECURSIVE ClaimedCounter(_, _)
ClaimedCounter(p, k) ==
    IF k = 1 THEN 0
    ELSE IF p[k] = p[k - 1] + 1 THEN ClaimedCounter(p, k - 1) + 1
    ELSE 0

\* The consecutive bonus the claim states for the k-th matched position.
ClaimedRunBonus(p, k) ==
    IF k > 1 /\ p[k] = p[k - 1] + 1 THEN 10 * ClaimedCounter(p, k) ELSE 0

\* The locals of fuzzy_score after the first n characters of the target.
LocalsAfter(n) ==
    fuzzy_score_loop(FoldedQuery, SubSeq(FoldedTarget, 1, n), ScoreInit, 0)

\* What the k-th matched position added to the score beyond the base credit,
\* the start bonus and the separator bonus.
RunBonusAt(p, k) ==
    LocalsAfter(p[k] + 1).score - LocalsAfter(p[k]).score
        - 5
        - (IF p[k] = 0 THEN 20 ELSE 0)
        - (IF p[k] > 0 /\ FoldedTarget[p[k]] \in {"/", "-", "_", " "} THEN 15 ELSE 0)

\* C22: in fuzzy_score the run counter is 0 at the first matched position,
\* grows by one at each matched position right after the previous one, where
\* 10 times its new value is added, and returns to 0 at a matched position
\* after a gap, where nothing is added.
C22_RunCounterRule ==
    (mode = "fuzzy" /\ pc = "scored" /\ matched /\ query # <<>>) =>
        LET p == GreedyPositions(FoldedQuery, FoldedTarget)
        IN  \A k \in 1..Len(FoldedQuery) :
                /\ LocalsAfter(p[k] + 1).consecutive = ClaimedCounter(p, k)
                /\ RunBonusAt(p, k) = ClaimedRunBonus(p, k)

\* Matched positions 0, 1, 3, 4: bonuses 0, 10, 0 after the gap, 10 again.
C22_Witness ==
    /\ mode = "fuzzy" /\ pc = "scored" /\ matched
    /\ Len(FoldedQuery) = 4
    /\ LET p == GreedyPositions(FoldedQuery, FoldedTarget)
       IN  /\ p = <<0, 1, 3, 4>>
           /\ RunBonusAt(p, 2) = 10 /\ RunBonusAt(p, 3) = 0 /\ RunBonusAt(p, 4) = 10
    /\ score = 25 + 15 + 5 + 15

\* Matched positions p, p + 1, p + 2 past the start: bonuses 0, 10, 20.
C22_WitnessRunOfThree ==
    /\ mode = "fuzzy" /\ pc = "scored" /\ matched
    /\ Len(FoldedQuery) = 3
    /\ LET p == GreedyPositions(FoldedQuery, FoldedTarget)
       IN  /\ p = <<1, 2, 3>>
           /\ RunBonusAt(p, 1) = 0 /\ RunBonusAt(p, 2) = 10 /\ RunBonusAt(p, 3) = 20
    /\ score = 5 + 15 + 25

(***************************************************************************)
(* C23                                                                     *)
(***************************************************************************)

\* Calls of fuzzy_match and fuzzy_score, and calls of fuzzy_sort and of the
\* search commands.
InitMatchRank == InitFuzzy \/ InitRank

NextMatchRank == NextFuzzy \/ NextRank

SpecMatchRank == InitMatchRank /\ [][NextMatchRank]_vars

\* The key of an item matches the query.
KeyMatches(item) == IsSubsequence(FoldedQuery, to_lowercase(item.key))

\* C23: the sentinel never collides with a score. When fuzzy_match(q, t)
\* holds, fuzzy_score(q, t) is at least 5 times the length of the
\* case-folded q; fuzzy_score(q, t) >= 0 exactly when fuzzy_match(q, t); and
\* fuzzy_sort places every item that does not match after every item that
\* does.
C23_SentinelBelowEveryScore ==
    /\ (mode = "fuzzy" /\ pc = "scored") =>
          /\ matched => score >= 5 * Len(FoldedQuery)
          /\ (score >= 0) <=> matched
    /\ (mode = "sort" /\ pc = "done") =>
          /\ \A i \in DOMAIN ranked :
                (KeyScore(ranked[i]) >= 0) <=> KeyMatches(ranked[i])
          /\ \A i \in DOMAIN ranked, j \in DOMAIN ranked :
                (~KeyMatches(ranked[i]) /\ KeyMatches(ranked[j])) => j < i

\* fuzzy_sort moved the item that does not match from the front of the slice
\* to its end, behind two items that match.
C23_Witness ==
    /\ mode = "sort" /\ pc = "done"
    /\ Len(items) = 3
    /\ ~KeyMatches(items[1]) /\ KeyMatches(items[2]) /\ KeyMatches(items[3])
    /\ ranked[3] = items[1]
    /\ KeyScore(ranked[3]) = -1

\* A match that earns the base credit only, next to a query that does not
\* match.
C23_WitnessLowestScore ==
    /\ mode = "fuzzy" /\ pc = "scored"
    /\ matched /\ query # <<>>
    /\ score = 5 * Len(FoldedQuery)
    /\ otherScore > score

(***************************************************************************)
(* C24                                                                     *)
(***************************************************************************)

\* The entries the tree alone determines: one for every repository reached
\* from a readable root through readable, non-skipped, non-repository
\* directories, with the path relative to the root as display.
TreeEntries ==
    { [display |-> SubSeq(p, Len(ScanRoot) + 2, Len(p)), path |-> p] :
        p \in { x \in DOMAIN fs : ReachableRepo(x) } }

\* C24: what discover_repos returns is determined by the tree alone. In
\* every run, whatever the order in which the listings yield their entries,
\* the result holds exactly the entries of the tree, each once, in strictly
\* ascending order of display: one sequence for a given tree.
C24_ResultDeterminedByTree ==
    (mode = "discover" /\ pc = "done") =>
        /\ Elements(repos) = TreeEntries
        /\ Len(repos) = Cardinality(TreeEntries)
        /\ \A i \in DOMAIN repos, j \in DOMAIN repos :
              i < j => /\ repos[i].display # repos[j].display
                       /\ LexLeq(repos[i].display, repos[j].display)

\* Two repositories and a third entry in the root, whose listing can yield
\* them in any order.
C24_Witness ==
    /\ mode = "discover" /\ pc = "done"
    /\ Len(repos) = 2
    /\ \A i \in DOMAIN repos : parent(repos[i].path) = ScanRoot
    /\ Cardinality({ x \in DOMAIN fs : parent(x) = ScanRoot }) = 3

====
